---- MODULE Spec2Model ----
(***************************************************************************)
(* Model of unko.py: the hashtag router of a Telegram forum group.         *)
(* handle_message forwards a message of the Hauptgruppe topic to the       *)
(* Biete and/or Suche topics when its text carries #biete / #suche, and    *)
(* otherwise to the topics remembered for its sender in                    *)
(* user_forwarding_context while that entry is at most                     *)
(* CONTEXT_TIME_WINDOW_MINUTES old.                                        *)
(*                                                                         *)
(* Strings are tuples of one-character strings, so that lower(), strip()   *)
(* and the substring test are computed as Python computes them.  Time is   *)
(* counted in minutes.  A coroutine runs without interruption from one     *)
(* await of a bot call to the next; every such stretch is one step.        *)
(***************************************************************************)
EXTENDS Integers, Sequences, FiniteSets, TLC

\* ------------------------------------------------------------------ bounds
\* the clock runs from 0 to MaxTime minutes
MaxTime == 6

\* --------------------------------------------------------- configuration
\* chat ids are only compared for equality: they are kept as opaque names
GROUP_ID == "-1003356712572"
OTHER_CHAT_ID == "-1"
HAUPTGRUPPE_TOPIC_ID == 2
CONTEXT_TIME_WINDOW_MINUTES == 5

\* the defaults of BIETE_TOPIC_ID and SUCHE_TOPIC_ID, and the values they
\* are drawn from when the environment sets them
DEFAULT_BIETE_TOPIC_ID == 3
DEFAULT_SUCHE_TOPIC_ID == 4
TopicIds == {DEFAULT_BIETE_TOPIC_ID, DEFAULT_SUCHE_TOPIC_ID}

\* an optional value (Python's None or a value) is a sequence of length 0 or 1
None == <<>>
Some(x) == <<x>>
NoKind == "none"

\* thread ids a message can arrive with (None: outside every topic)
ThreadIds == {Some(HAUPTGRUPPE_TOPIC_ID), Some(DEFAULT_BIETE_TOPIC_ID), None}

Users == {1, 2}
Procs == {1, 2}

\* the payload fields forward_media_to_topic tests, in the order it tests them
MediaOrder == <<"photo", "video", "document", "audio", "voice", "video_note", "sticker">>
MediaKinds == {MediaOrder[i] : i \in 1..Len(MediaOrder)}

\* ---------------------------------------------------------------- strings
sBlank == <<" ">>
sHi    == <<"h", "i">>
sBiete == <<"#", "b", "i", "e", "t", "e">>
sSUCHE == <<"#", "S", "U", "C", "H", "E">>
sBoth  == <<"#", "s", "u", "c", "h", "e", " ", "#", "B", "i", "e", "t", "e">>
sPlain == <<"b", "i", "e", "t", "e">>
sFused == <<"x", "#", "B", "I", "E", "T", "E", "#", "s", "u", "c", "h", "e">>
sCut   == <<"#", "b", "i", "e", "t", " ", "#", "s", "u", "c", "h">>

HASH_BIETE == <<"#", "b", "i", "e", "t", "e">>
HASH_SUCHE == <<"#", "s", "u", "c", "h", "e">>

\* str.lower() on the characters the model's texts use
LowerChar(c) ==
    CASE c = "B" -> "b" [] c = "I" -> "i" [] c = "E" -> "e" [] c = "T" -> "t"
      [] c = "S" -> "s" [] c = "U" -> "u" [] c = "C" -> "c" [] c = "H" -> "h"
      [] OTHER -> c

Lower(s) == [i \in 1..Len(s) |-> LowerChar(s[i])]

\* sub in s
Contains(sub, s) ==
    \E i \in 1..(Len(s) - Len(sub) + 1) : SubSeq(s, i, i + Len(sub) - 1) = sub

IsSpace(c) == c \in {" ", "\n", "\t"}

RECURSIVE LStrip(_)
LStrip(s) == IF s # <<>> /\ IsSpace(Head(s)) THEN LStrip(Tail(s)) ELSE s

RECURSIVE RStrip(_)
RStrip(s) ==
    IF s # <<>> /\ IsSpace(s[Len(s)]) THEN RStrip(SubSeq(s, 1, Len(s) - 1)) ELSE s

\* str.strip()
Strip(s) == RStrip(LStrip(s))

\* truth value of an optional string: None and "" are false
Truthy(o) == o # None /\ o[1] # <<>>

\* ---------------------------------------------------------------- messages
Msg(chat, thread, user, text, caption, media) ==
    [chat_id |-> chat, message_thread_id |-> thread, from_user |-> user,
     text |-> text, caption |-> caption, media |-> media]

\* text = message.text or message.caption or ""
TextOf(m) ==
    IF Truthy(m.text) THEN m.text[1]
    ELSE IF Truthy(m.caption) THEN m.caption[1]
    ELSE <<>>

\* has_media = any([message.photo, ..., message.sticker])
HasMedia(m) == \E k \in MediaKinds : k \in m.media

\* the branch of the if/elif chain of forward_media_to_topic that is taken
MediaKind(m) ==
    LET present == {i \in 1..Len(MediaOrder) : MediaOrder[i] \in m.media}
    IN  IF present = {} THEN NoKind
        ELSE MediaOrder[CHOOSE i \in present : \A j \in present : i <= j]

\* user_link = f"[{user.first_name}](tg://user?id={user.id})"
UserLink(user) == [id |-> user[1]]

\* f"\U0001F4E8 Von {user_link}:\n\n{text}"
TextBody(m) == [header |-> UserLink(m.from_user), body |-> Some(TextOf(m))]

\* caption_text of forward_media_to_topic
CaptionText(m) ==
    [header |-> UserLink(m.from_user),
     body |-> IF Truthy(m.caption) THEN m.caption ELSE None]

\* ------------------------------------------------------------ context store
(* mutant: the entry expires as soon as its age reaches the window *)
get_expires_at_window(ctx, user_id, t) ==
    IF user_id \notin DOMAIN ctx
    THEN [ret |-> <<>>, ctx |-> ctx]
    ELSE IF t - ctx[user_id].timestamp >= CONTEXT_TIME_WINDOW_MINUTES
         THEN [ret |-> <<>>,
               ctx |-> [u \in DOMAIN ctx \ {user_id} |-> ctx[u]]]
         ELSE [ret |-> ctx[user_id].topics, ctx |-> ctx]

(* mutant: a read consumes the entry *)
get_pops_entry(ctx, user_id, t) ==
    IF user_id \notin DOMAIN ctx
    THEN [ret |-> <<>>, ctx |-> ctx]
    ELSE [ret |-> IF t - ctx[user_id].timestamp > CONTEXT_TIME_WINDOW_MINUTES
                  THEN <<>> ELSE ctx[user_id].topics,
          ctx |-> [u \in DOMAIN ctx \ {user_id} |-> ctx[u]]]

(* mutant: an expired entry is reported empty but left in the store *)
get_keeps_expired(ctx, user_id, t) ==
    IF user_id \notin DOMAIN ctx
    THEN [ret |-> <<>>, ctx |-> ctx]
    ELSE IF t - ctx[user_id].timestamp > CONTEXT_TIME_WINDOW_MINUTES
         THEN [ret |-> <<>>, ctx |-> ctx]
         ELSE [ret |-> ctx[user_id].topics, ctx |-> ctx]

(* mutant: a read of a live entry renews its timestamp *)
get_renews_entry(ctx, user_id, t) ==
    IF user_id \notin DOMAIN ctx
    THEN [ret |-> <<>>, ctx |-> ctx]
    ELSE IF t - ctx[user_id].timestamp > CONTEXT_TIME_WINDOW_MINUTES
         THEN [ret |-> <<>>,
               ctx |-> [u \in DOMAIN ctx \ {user_id} |-> ctx[u]]]
         ELSE [ret |-> ctx[user_id].topics,
               ctx |-> [ctx EXCEPT ![user_id].timestamp = t]]

(* mutant: a get that finds its entry expired removes every expired entry *)
get_sweeps_expired(ctx, user_id, t) ==
    IF user_id \notin DOMAIN ctx
    THEN [ret |-> <<>>, ctx |-> ctx]
    ELSE IF t - ctx[user_id].timestamp > CONTEXT_TIME_WINDOW_MINUTES
         THEN [ret |-> <<>>,
               ctx |-> [u \in {v \in DOMAIN ctx :
                                  t - ctx[v].timestamp <= CONTEXT_TIME_WINDOW_MINUTES}
                           |-> ctx[u]]]
         ELSE [ret |-> ctx[user_id].topics, ctx |-> ctx]

\* get_active_topics_for_user at time t: the list returned and the store left
get_active_topics_for_user(ctx, user_id, t) ==
    IF user_id \notin DOMAIN ctx
    THEN [ret |-> <<>>, ctx |-> ctx]
    ELSE IF t - ctx[user_id].timestamp > CONTEXT_TIME_WINDOW_MINUTES
         THEN [ret |-> <<>>,
               ctx |-> [u \in DOMAIN ctx \ {user_id} |-> ctx[u]]]
         ELSE [ret |-> ctx[user_id].topics, ctx |-> ctx]

(* mutant: the new topics are added to those of the entry *)
update_merges_topics(ctx, user_id, topics, t) ==
    [u \in DOMAIN ctx \cup {user_id} |->
        IF u = user_id
        THEN [topics |-> IF u \in DOMAIN ctx THEN ctx[u].topics \o topics ELSE topics,
              timestamp |-> t]
        ELSE ctx[u]]

(* mutant: an entry that exists gets the new topics but keeps its timestamp *)
update_keeps_timestamp(ctx, user_id, topics, t) ==
    [u \in DOMAIN ctx \cup {user_id} |->
        IF u = user_id
        THEN [topics |-> topics,
              timestamp |-> IF u \in DOMAIN ctx THEN ctx[u].timestamp ELSE t]
        ELSE ctx[u]]

\* update_user_context at time t: the store left
update_user_context(ctx, user_id, topics, t) ==
    [u \in DOMAIN ctx \cup {user_id} |->
        IF u = user_id THEN [topics |-> topics, timestamp |-> t] ELSE ctx[u]]

\* -------------------------------------------------------------------- state
VARIABLES
    BIETE_TOPIC_ID,           \* configuration read from the environment
    SUCHE_TOPIC_ID,
    user_forwarding_context,  \* user id -> [topics, timestamp]
    now,                      \* datetime.now(), in minutes
    pc,                       \* where each invocation of handle_message stands
    message,                  \* its update.message
    topics,                   \* the list it iterates: target_topics or active_topics
    branch,                   \* "keyword", "context" or "none"
    idx,                      \* position of the running for loop in topics
    log,                      \* the bot calls it has made that have returned
    lastStep,                 \* history: the step just taken and who took it
    prevCtx,                  \* history: user_forwarding_context before that step
    lastGet,                  \* history: the get_active_topics_for_user call of
                              \* that step, if it made one
    lastPut                   \* history: per user, the last update_user_context

vars == <<BIETE_TOPIC_ID, SUCHE_TOPIC_ID, user_forwarding_context, now, pc,
          message, topics, branch, idx, log, lastStep, prevCtx, lastGet, lastPut>>

config == <<BIETE_TOPIC_ID, SUCHE_TOPIC_ID>>
locals == <<pc, message, topics, branch, idx, log>>

Awaiting == {"text", "media", "followup"}
Ended == {"idle", "done", "raised"}

\* ------------------------------------------------------------ handle_message
\* the two ingress tests: message.chat_id != GROUP_ID and
\* message.message_thread_id != HAUPTGRUPPE_TOPIC_ID make it return
ChatMatches(m) == m.chat_id = GROUP_ID

(* mutant: every topic of the group is monitored *)
AnyThreadMatches(m) == TRUE

ThreadMatches(m) == m.message_thread_id = Some(HAUPTGRUPPE_TOPIC_ID)

(* mutant: a message with a marker is also sent back to the monitored topic *)
TargetTopicsEcho(text, biete, suche) ==
    (IF Contains(HASH_BIETE, Lower(text)) THEN <<biete>> ELSE <<>>)
    \o (IF Contains(HASH_SUCHE, Lower(text)) THEN <<suche>> ELSE <<>>)
    \o (IF Contains(HASH_BIETE, Lower(text)) \/ Contains(HASH_SUCHE, Lower(text))
        THEN <<HAUPTGRUPPE_TOPIC_ID>> ELSE <<>>)

\* target_topics, from the two hashtag tests on text.lower()
TargetTopics(text, biete, suche) ==
    (IF Contains(HASH_BIETE, Lower(text)) THEN <<biete>> ELSE <<>>)
    \o (IF Contains(HASH_SUCHE, Lower(text)) THEN <<suche>> ELSE <<>>)

(* mutant: a sticker is followed by the send_message whatever its caption *)
NeedsFollowupAlways(m) ==
    \/ MediaKind(m) = "video_note"
    \/ MediaKind(m) = "sticker"

\* video notes always, stickers when the message has a caption, are followed
\* by a send_message carrying caption_text
NeedsFollowup(m) ==
    \/ MediaKind(m) = "video_note"
    \/ MediaKind(m) = "sticker" /\ Truthy(m.caption)

(* mutant: the media loop runs first and the text loop is skipped *)
FirstPointMediaFirst(m, tp) ==
    IF HasMedia(m) THEN [pc |-> "media", idx |-> 1]
    ELSE IF Strip(TextOf(m)) # <<>> THEN [pc |-> "text", idx |-> 1]
    ELSE [pc |-> "end", idx |-> 0]

\* the first await of the forwarding block over the non-empty list tp
FirstPoint(m, tp) ==
    IF Strip(TextOf(m)) # <<>> THEN [pc |-> "text", idx |-> 1]
    ELSE IF HasMedia(m) THEN [pc |-> "media", idx |-> 1]
    ELSE [pc |-> "end", idx |-> 0]

(* mutant: the text loop ends after its first destination *)
AfterTextBreaks(m, tp, i, ok) ==
    IF HasMedia(m) THEN [pc |-> "media", idx |-> 1]
    ELSE [pc |-> "end", idx |-> 0]

(* mutant: each text send is followed by the media send to its destination *)
AfterTextThenMedia(m, tp, i, ok) ==
    IF HasMedia(m) THEN [pc |-> "media", idx |-> i]
    ELSE IF i < Len(tp) THEN [pc |-> "text", idx |-> i + 1]
    ELSE [pc |-> "end", idx |-> 0]

(* mutant: what the send_message of the text loop raises leaves the handler *)
AfterTextRaises(m, tp, i, ok) ==
    IF ~ok THEN [pc |-> "raised", idx |-> 0]
    ELSE IF i < Len(tp) THEN [pc |-> "text", idx |-> i + 1]
    ELSE IF HasMedia(m) THEN [pc |-> "media", idx |-> 1]
    ELSE [pc |-> "end", idx |-> 0]

\* the next await after the send_message of the text loop for tp[i] returned
\* (ok) or raised: the except clause is inside the loop
AfterText(m, tp, i, ok) ==
    IF i < Len(tp) THEN [pc |-> "text", idx |-> i + 1]
    ELSE IF HasMedia(m) THEN [pc |-> "media", idx |-> 1]
    ELSE [pc |-> "end", idx |-> 0]

\* the next await after forward_media_to_topic for tp[i] returned; it catches
\* whatever its bot calls raise
AfterForward(m, tp, i, ok) ==
    IF i < Len(tp) THEN [pc |-> "media", idx |-> i + 1]
    ELSE [pc |-> "end", idx |-> 0]

(* mutant: a send_<kind> call that raised is made again *)
AfterMediaRetries(m, tp, i, ok) ==
    IF ~ok THEN [pc |-> "media", idx |-> i]
    ELSE IF NeedsFollowup(m) THEN [pc |-> "followup", idx |-> i]
    ELSE AfterForward(m, tp, i, ok)

(* mutant: what a send_<kind> call raises ends the media loop *)
AfterMediaRaises(m, tp, i, ok) ==
    IF ~ok THEN [pc |-> "end", idx |-> 0]
    ELSE IF NeedsFollowup(m) THEN [pc |-> "followup", idx |-> i]
    ELSE AfterForward(m, tp, i, ok)

\* the next await after the send_<kind> call for tp[i] returned (ok) or raised
AfterMedia(m, tp, i, ok) ==
    IF ok /\ NeedsFollowup(m) THEN [pc |-> "followup", idx |-> i]
    ELSE AfterForward(m, tp, i, ok)

\* a bot call (text: the text or caption argument, None when it has neither)
Call(prim, thread, text) ==
    [prim |-> prim, chat_id |-> GROUP_ID, message_thread_id |-> thread, text |-> text]

\* the bot call an invocation at await point at of the loop over tp is in
CallAt(m, tp, at, i) ==
    CASE at = "text" -> Call("send_message", tp[i], Some(TextBody(m)))
      [] at = "media" ->
           Call("send_" \o MediaKind(m), tp[i],
                IF MediaKind(m) \in {"video_note", "sticker"}
                THEN None
                ELSE Some(CaptionText(m)))
      [] at = "followup" -> Call("send_message", tp[i], Some(CaptionText(m)))

InFlight(p) == CallAt(message[p][1], topics[p], pc[p], idx[p])

\* the invocation p moves on to the await point pt
Proceed(p, m, tp, br, pt, lg) ==
    /\ pc' = [pc EXCEPT ![p] = IF pt.pc = "end" THEN "done" ELSE pt.pc]
    /\ idx' = [idx EXCEPT ![p] = pt.idx]
    /\ message' = [message EXCEPT ![p] = Some(m)]
    /\ topics' = [topics EXCEPT ![p] = tp]
    /\ branch' = [branch EXCEPT ![p] = br]
    /\ log' = [log EXCEPT ![p] = lg]

\* update_user_context(user_id, tp)
Put(user_id, tp) ==
    /\ user_forwarding_context' =
           update_user_context(user_forwarding_context, user_id, tp, now)
    /\ lastPut' = [lastPut EXCEPT ![user_id] =
                      Some([topics |-> tp, timestamp |-> now])]

(* mutant: the context is written only when some call of the route returned *)
UpdatesContextIfDelivered(br, lg) ==
    br = "keyword" /\ \E i \in 1..Len(lg) : lg[i].ok

\* the forwarding block of branch br with the calls lg made is followed by
\* update_user_context: in the keyword block always, whatever the calls did
UpdatesContext(br, lg) == br = "keyword"

NoStoreCall ==
    /\ lastGet' = None
    /\ UNCHANGED <<user_forwarding_context, lastPut>>

\* get_active_topics_for_user(user_id), recorded with the result of the get
\* of the step before when that was a get for the same user
Get(user_id) ==
    LET g == get_active_topics_for_user(user_forwarding_context, user_id, now) IN
    /\ user_forwarding_context' = g.ctx
    /\ lastGet' = Some([user_id |-> user_id, at |-> now, ret |-> g.ret,
                        prev |-> IF lastGet # None /\ lastGet[1].user_id = user_id
                                 THEN Some(lastGet[1].ret) ELSE None])
    /\ UNCHANGED lastPut

Step(op, p) ==
    /\ lastStep' = [op |-> op, proc |-> p]
    /\ prevCtx' = user_forwarding_context

\* an invocation that returns (or raises) before it forwards anything
Stop(p, update, how) ==
    /\ pc' = [pc EXCEPT ![p] = how]
    /\ idx' = [idx EXCEPT ![p] = 0]
    /\ message' = [message EXCEPT ![p] = update]
    /\ topics' = [topics EXCEPT ![p] = <<>>]
    /\ branch' = [branch EXCEPT ![p] = "none"]
    /\ log' = [log EXCEPT ![p] = <<>>]

\* handle_message from its first line to its first await (or its end)
handle_message(p, update) ==
    /\ pc[p] \in Ended
    /\ Step("handle_message", p)
    /\ UNCHANGED <<config, now>>
    /\ IF update = None
       THEN Stop(p, update, "done") /\ NoStoreCall
       ELSE LET m == update[1]
                text == TextOf(m)
                target_topics == TargetTopics(text, BIETE_TOPIC_ID, SUCHE_TOPIC_ID)
            IN
            IF ~ChatMatches(m)
            THEN Stop(p, update, "done") /\ NoStoreCall
            ELSE IF ~ThreadMatches(m)
            THEN Stop(p, update, "done") /\ NoStoreCall
            ELSE IF m.from_user = None
            THEN \* user.first_name on None raises AttributeError
                 Stop(p, update, "raised") /\ NoStoreCall
            ELSE IF target_topics # <<>>
            THEN LET pt == FirstPoint(m, target_topics) IN
                 /\ Proceed(p, m, target_topics, "keyword", pt, <<>>)
                 /\ lastGet' = None
                 /\ IF pt.pc = "end" /\ UpdatesContext("keyword", <<>>)
                    THEN Put(m.from_user[1], target_topics)
                    ELSE UNCHANGED <<user_forwarding_context, lastPut>>
            ELSE IF HasMedia(m) \/ Strip(text) # <<>>
            THEN LET active_topics ==
                         get_active_topics_for_user(
                             user_forwarding_context, m.from_user[1], now).ret
                     pt == IF active_topics # <<>>
                           THEN FirstPoint(m, active_topics)
                           ELSE [pc |-> "end", idx |-> 0]
                 IN
                 /\ Proceed(p, m, active_topics, "context", pt, <<>>)
                 /\ Get(m.from_user[1])
            ELSE Stop(p, update, "done") /\ NoStoreCall

\* the bot call invocation p awaits returns (ok) or raises, and p runs on to
\* its next await or to its end; at the end of the keyword block it calls
\* update_user_context
send_returns(p, ok) ==
    /\ pc[p] \in Awaiting
    /\ Step("send_returns", p)
    /\ LET m == message[p][1]
           tp == topics[p]
           i == idx[p]
           pt == CASE pc[p] = "text" -> AfterText(m, tp, i, ok)
                   [] pc[p] = "media" -> AfterMedia(m, tp, i, ok)
                   [] pc[p] = "followup" -> AfterForward(m, tp, i, ok)
           lg == Append(log[p], [call |-> InFlight(p), at |-> pc[p], ok |-> ok])
       IN
       /\ Proceed(p, m, tp, branch[p], pt, lg)
       /\ IF pt.pc = "end" /\ UpdatesContext(branch[p], lg)
          THEN Put(m.from_user[1], tp)
          ELSE UNCHANGED <<user_forwarding_context, lastPut>>
    /\ lastGet' = None
    /\ UNCHANGED <<config, now>>

\* time passes; invocations that have ended are forgotten
Tick ==
    /\ now < MaxTime
    /\ now' = now + 1
    /\ Step("Tick", 0)
    /\ pc' = [p \in Procs |-> IF pc[p] \in Ended THEN "idle" ELSE pc[p]]
    /\ message' = [p \in Procs |-> IF pc[p] \in Ended THEN None ELSE message[p]]
    /\ log' = [p \in Procs |-> IF pc[p] \in Ended THEN <<>> ELSE log[p]]
    /\ topics' = [p \in Procs |-> IF pc[p] \in Ended THEN <<>> ELSE topics[p]]
    /\ branch' = [p \in Procs |-> IF pc[p] \in Ended THEN "none" ELSE branch[p]]
    /\ idx' = [p \in Procs |-> IF pc[p] \in Ended THEN 0 ELSE idx[p]]
    /\ lastGet' = None
    /\ UNCHANGED <<config, user_forwarding_context, lastPut>>

\* ------------------------------------------------------------------- inputs
Texts == {sBlank, sHi, sBiete, sSUCHE, sBoth}

\* text messages of the monitored topic
TextUpdates ==
    {Some(Msg(GROUP_ID, Some(HAUPTGRUPPE_TOPIC_ID), Some(1), Some(t), None, {})) :
        t \in Texts}
    \cup {Some(Msg(GROUP_ID, Some(HAUPTGRUPPE_TOPIC_ID), Some(2), Some(t), None, {})) :
        t \in {sHi, sSUCHE}}

\* media messages of the monitored topic, with and without caption
MediaUpdates ==
    {Some(Msg(GROUP_ID, Some(HAUPTGRUPPE_TOPIC_ID), Some(1), None, c, md)) :
        c \in {None, Some(sBiete)},
        md \in {{"photo"}, {"video_note"}, {"sticker"}, {"video", "sticker"}}}
    \cup {Some(Msg(GROUP_ID, Some(HAUPTGRUPPE_TOPIC_ID), Some(1), None, Some(sBoth),
                    {"photo"}))}

\* messages of another chat or topic, messages without sender, no message
OtherUpdates ==
    {Some(Msg(ch, th, Some(1), Some(sBiete), None, {"photo"})) :
        ch \in {GROUP_ID, OTHER_CHAT_ID}, th \in ThreadIds}
    \cup {Some(Msg(GROUP_ID, Some(HAUPTGRUPPE_TOPIC_ID), None, Some(t), None, {})) :
            t \in {sHi, sBiete}}
    \cup {None}

Updates == TextUpdates \cup MediaUpdates \cup OtherUpdates

\* ------------------------------------------------------------ specification
InitState ==
    /\ user_forwarding_context = <<>>
    /\ now = 0
    /\ pc = [p \in Procs |-> "idle"]
    /\ message = [p \in Procs |-> None]
    /\ topics = [p \in Procs |-> <<>>]
    /\ branch = [p \in Procs |-> "none"]
    /\ idx = [p \in Procs |-> 0]
    /\ log = [p \in Procs |-> <<>>]
    /\ lastStep = [op |-> "init", proc |-> 0]
    /\ prevCtx = <<>>
    /\ lastGet = None
    /\ lastPut = [u \in Users |-> None]

Init ==
    /\ BIETE_TOPIC_ID = DEFAULT_BIETE_TOPIC_ID
    /\ SUCHE_TOPIC_ID = DEFAULT_SUCHE_TOPIC_ID
    /\ InitState

\* updates are processed one at a time (Application.builder() leaves
\* concurrent_updates off)
Next ==
    \/ \E update \in Updates : handle_message(1, update)
    \/ \E ok \in BOOLEAN : send_returns(1, ok)
    \/ Tick

Spec == Init /\ [][Next]_vars

\* every bot call awaited returns or raises in the end
SpecFair == Spec /\ WF_vars(\E ok \in BOOLEAN : send_returns(1, ok))

\* ------------------------------------- the router under every configuration
\* BIETE_TOPIC_ID and SUCHE_TOPIC_ID as the environment may set them
InitCfg ==
    /\ BIETE_TOPIC_ID \in TopicIds
    /\ SUCHE_TOPIC_ID \in TopicIds
    /\ InitState

CfgUpdates ==
    {Some(Msg(GROUP_ID, Some(HAUPTGRUPPE_TOPIC_ID), Some(1), Some(t), None, {})) :
        t \in Texts \cup {sPlain, sFused, sCut}}

NextCfg ==
    \/ \E update \in CfgUpdates : handle_message(1, update)
    \/ \E ok \in BOOLEAN : send_returns(1, ok)
    \/ Tick

SpecCfg == InitCfg /\ [][NextCfg]_vars

\* ------------------------------------------- the context store on its own
\* a direct call of get_active_topics_for_user
StoreGet(user_id) ==
    /\ Step("get", 0)
    /\ Get(user_id)
    /\ UNCHANGED <<config, now, locals>>

\* a direct call of update_user_context
StorePut(user_id, tp) ==
    /\ Step("put", 0)
    /\ Put(user_id, tp)
    /\ lastGet' = None
    /\ UNCHANGED <<config, now, locals>>

PutInputs ==
    ({1} \X {<<>>, <<DEFAULT_BIETE_TOPIC_ID>>, <<DEFAULT_SUCHE_TOPIC_ID>>,
             <<DEFAULT_BIETE_TOPIC_ID, DEFAULT_SUCHE_TOPIC_ID>>})
    \cup ({2} \X {<<DEFAULT_SUCHE_TOPIC_ID>>})

NextStore ==
    \/ \E user_id \in Users : StoreGet(user_id)
    \/ \E in \in PutInputs : StorePut(in[1], in[2])
    \/ Tick

SpecStore == Init /\ [][NextStore]_vars

\* ------------------------------------------------- interleaved invocations
\* handlers run as tasks of one event loop (concurrent_updates on): between
\* two awaits a handler runs alone, at an await another may run
ConcUpdates ==
    {Some(Msg(GROUP_ID, Some(HAUPTGRUPPE_TOPIC_ID), Some(1), Some(t), None, {})) :
        t \in {sHi, sBiete}}
    \cup {Some(Msg(GROUP_ID, Some(HAUPTGRUPPE_TOPIC_ID), Some(2), Some(sSUCHE),
                    None, {}))}

NextConc ==
    \/ \E p \in Procs, update \in ConcUpdates : handle_message(p, update)
    \/ \E p \in Procs, ok \in BOOLEAN : send_returns(p, ok)
    \/ Tick

SpecConc == Init /\ [][NextConc]_vars

\* an entry of age at most the window at time t
Live(ctx, user_id, t) ==
    /\ user_id \in DOMAIN ctx
    /\ t - ctx[user_id].timestamp <= CONTEXT_TIME_WINDOW_MINUTES

\* ------------------------------------------------------------------ claims
\* ------------------------------------------------- vocabulary of the claims
Range(f) == {f[i] : i \in DOMAIN f}

\* marker occurs in text at position i, whatever the case of the letters
MarkerAt(text, marker, i) ==
    \A j \in 1..Len(marker) : LowerChar(text[i + j - 1]) = marker[j]

HasMarker(text, marker) ==
    \E i \in 1..(Len(text) - Len(marker) + 1) : MarkerAt(text, marker, i)

NoMarker(text) == ~HasMarker(text, HASH_BIETE) /\ ~HasMarker(text, HASH_SUCHE)

NonBlank(text) == \E i \in 1..Len(text) : ~IsSpace(text[i])

\* invocation p has a message of the monitored chat and topic
Monitored(p) ==
    /\ message[p] # None
    /\ message[p][1].chat_id = GROUP_ID
    /\ message[p][1].message_thread_id = Some(HAUPTGRUPPE_TOPIC_ID)

\* ... that has a sender, no marker, and text or media: a follow-up
FollowUp(p) ==
    /\ Monitored(p)
    /\ message[p][1].from_user # None
    /\ NoMarker(TextOf(message[p][1]))
    /\ NonBlank(TextOf(message[p][1])) \/ message[p][1].media # {}

\* ... that has a sender and a marker
Marked(p) ==
    /\ Monitored(p)
    /\ message[p][1].from_user # None
    /\ ~NoMarker(TextOf(message[p][1]))

Sender(p) == message[p][1].from_user[1]

\* the step just taken was taken by invocation p
StepOf(p) == lastStep.proc = p /\ lastStep.op \in {"handle_message", "send_returns"}
Started(p) == lastStep = [op |-> "handle_message", proc |-> p]

\* the threads of the calls p made from the text loop, and from
\* forward_media_to_topic's send_<kind> calls, in the order made
RECURSIVE ThreadsAt(_, _)
ThreadsAt(lg, at) ==
    IF lg = <<>> THEN <<>>
    ELSE (IF Head(lg).at = at THEN <<Head(lg).call.message_thread_id>> ELSE <<>>)
         \o ThreadsAt(Tail(lg), at)

\* C2: a follow-up of sender s handled while the entry of the last keyword
\* route of s, to the list D, is at most the window old is dispatched to D:
\* its text, when not blank, is sent once per element of D, in order, and
\* no call goes anywhere else.
C2_StickyFollowUp ==
    \A p \in Procs :
        FollowUp(p) =>
            /\ ( /\ Started(p)
                 /\ lastPut[Sender(p)] # None
                 /\ now - lastPut[Sender(p)][1].timestamp
                        <= CONTEXT_TIME_WINDOW_MINUTES )
               => /\ topics[p] = lastPut[Sender(p)][1].topics
                  /\ pc[p] \in Awaiting
                  /\ InFlight(p).message_thread_id = topics[p][1]
            /\ (pc[p] = "done" /\ topics[p] # <<>>)
               => /\ ThreadsAt(log[p], "text") =
                        IF NonBlank(TextOf(message[p][1])) THEN topics[p] ELSE <<>>
                  /\ \A i \in 1..Len(log[p]) :
                        /\ log[p][i].call.chat_id = GROUP_ID
                        /\ log[p][i].call.message_thread_id \in Range(topics[p])

\* a text follow-up that has been sent to both topics of the sender's entry
C2_Witness ==
    \E p \in Procs :
        /\ FollowUp(p)
        /\ pc[p] = "done"
        /\ lastPut[Sender(p)] # None
        /\ topics[p] = <<DEFAULT_BIETE_TOPIC_ID, DEFAULT_SUCHE_TOPIC_ID>>
        /\ topics[p] = lastPut[Sender(p)][1].topics
        /\ now > lastPut[Sender(p)][1].timestamp
        /\ ThreadsAt(log[p], "text") = topics[p]

\* C3: a follow-up of a sender without live context (no entry, or an entry
\* older than the window) causes no send and no context write, and leaves no
\* entry of the sender in the store: an expired one is removed.
C3_NoLiveContextNoDispatch ==
    \A p \in Procs :
        (Started(p) /\ FollowUp(p) /\ ~Live(prevCtx, Sender(p), now))
        => /\ pc[p] = "done"
           /\ log[p] = <<>>
           /\ Sender(p) \notin DOMAIN user_forwarding_context
           /\ DOMAIN user_forwarding_context = DOMAIN prevCtx \ {Sender(p)}
           /\ \A v \in DOMAIN user_forwarding_context :
                 user_forwarding_context[v] = prevCtx[v]

\* a follow-up that found its sender's entry expired
C3_Witness ==
    \E p \in Procs :
        /\ Started(p) /\ FollowUp(p)
        /\ Sender(p) \in DOMAIN prevCtx
        /\ ~Live(prevCtx, Sender(p), now)
        /\ pc[p] = "done"

\* the destinations of the markers of text, Biete first
KeywordDestinations(text) ==
    (IF HasMarker(text, HASH_BIETE) THEN <<BIETE_TOPIC_ID>> ELSE <<>>)
    \o (IF HasMarker(text, HASH_SUCHE) THEN <<SUCHE_TOPIC_ID>> ELSE <<>>)

\* C4: a keyword route of sender s with keyword destinations K writes the
\* store only when its last send has returned, and then the entry of s is
\* exactly K with the time of that moment, whatever entry s had before.
C4_KeywordPutOverwrites ==
    \A p \in Procs :
        (StepOf(p) /\ Marked(p))
        => IF pc[p] = "done"
           THEN /\ Sender(p) \in DOMAIN user_forwarding_context
                /\ user_forwarding_context[Sender(p)] =
                      [topics |-> KeywordDestinations(TextOf(message[p][1])),
                       timestamp |-> now]
                /\ \A v \in DOMAIN prevCtx \ {Sender(p)} :
                      user_forwarding_context[v] = prevCtx[v]
           ELSE /\ pc[p] \in Awaiting
                /\ user_forwarding_context = prevCtx

\* a keyword route to Suche that ended while its sender had a live, younger
\* than now, entry for Biete and Suche
C4_Witness ==
    \E p \in Procs :
        /\ StepOf(p) /\ Marked(p) /\ pc[p] = "done"
        /\ log[p] # <<>>
        /\ Live(prevCtx, Sender(p), now)
        /\ prevCtx[Sender(p)].topics = <<DEFAULT_BIETE_TOPIC_ID, DEFAULT_SUCHE_TOPIC_ID>>
        /\ prevCtx[Sender(p)].timestamp < now
        /\ user_forwarding_context[Sender(p)].topics = <<DEFAULT_SUCHE_TOPIC_ID>>

\* C5: whichever sends fail, a route with final destinations F has, when it
\* ends, attempted the text send (text not blank) and the media send (media
\* present) for every destination of F, in the order of F.
C5_FailureIsolation ==
    \A p \in Procs :
        (pc[p] = "done" /\ Monitored(p) /\ topics[p] # <<>>)
        => /\ ThreadsAt(log[p], "text") =
                 IF NonBlank(TextOf(message[p][1])) THEN topics[p] ELSE <<>>
           /\ ThreadsAt(log[p], "media") =
                 IF message[p][1].media # {} THEN topics[p] ELSE <<>>

\* a route to two topics whose text send and media send to the first both
\* failed
C5_Witness ==
    \E p \in Procs :
        /\ pc[p] = "done"
        /\ Len(topics[p]) = 2
        /\ Len(log[p]) = 4
        /\ ~log[p][1].ok /\ log[p][1].at = "text"
        /\ ~log[p][3].ok /\ log[p][3].at = "media"
        /\ log[p][4].at = "media"

\* C6: a message of another chat or another topic causes no send, no get, no
\* put and no deletion, whatever it carries.
C6_IngressFilter ==
    \A p \in Procs :
        (Started(p) /\ message[p] # None /\ ~Monitored(p))
        => /\ pc[p] = "done"
           /\ log[p] = <<>>
           /\ lastGet = None
           /\ user_forwarding_context = prevCtx

\* a message with a marker from another topic of the group, received while
\* the entry of its sender is expired
C6_Witness ==
    \E p \in Procs :
        /\ Started(p) /\ message[p] # None
        /\ message[p][1].chat_id = GROUP_ID
        /\ message[p][1].message_thread_id # Some(HAUPTGRUPPE_TOPIC_ID)
        /\ HasMarker(TextOf(message[p][1]), HASH_BIETE)
        /\ message[p][1].from_user[1] \in DOMAIN user_forwarding_context
        /\ ~Live(user_forwarding_context, message[p][1].from_user[1], now)

\* C7: a message of the monitored topic without sender sends nothing,
\* changes no context and lets handle_message return normally.
C7_NoSenderDropped ==
    \A p \in Procs :
        (Started(p) /\ Monitored(p) /\ message[p][1].from_user = None)
        => /\ pc[p] = "done"
           /\ log[p] = <<>>
           /\ user_forwarding_context = prevCtx

\* target_topics of an invocation that has passed the hashtag tests
Classified(p) == IF branch[p] = "keyword" THEN topics[p] ELSE <<>>

\* C8: for every text and every configuration of the two topic ids, also
\* one that gives both markers the same id, the keyword destinations hold
\* the destination of every marker that occurs in the text, whatever the
\* case of its letters, hold nothing else, hold nothing twice, and hold
\* Biete's before Suche's; they are empty for a text without marker.
C8_Classification ==
    \A p \in Procs :
        (Monitored(p) /\ message[p][1].from_user # None /\ pc[p] # "idle")
        => LET text == TextOf(message[p][1])
               K == Classified(p)
           IN  /\ HasMarker(text, HASH_BIETE) => BIETE_TOPIC_ID \in Range(K)
               /\ HasMarker(text, HASH_SUCHE) => SUCHE_TOPIC_ID \in Range(K)
               /\ \A d \in Range(K) :
                     \/ HasMarker(text, HASH_BIETE) /\ d = BIETE_TOPIC_ID
                     \/ HasMarker(text, HASH_SUCHE) /\ d = SUCHE_TOPIC_ID
               /\ \A i, j \in 1..Len(K) : i # j => K[i] # K[j]
               /\ (Len(K) = 2) => (K[1] = BIETE_TOPIC_ID /\ K[2] = SUCHE_TOPIC_ID)
               /\ NoMarker(text) => K = <<>>

\* C9: a route without marker never writes the store: it adds no entry and
\* changes none, so a live entry keeps its topics and its timestamp through
\* every follow-up.
C9_NoWriteWithoutMarker ==
    \A p \in Procs :
        (StepOf(p) /\ Monitored(p) /\ message[p][1].from_user # None
                   /\ NoMarker(TextOf(message[p][1])))
        => /\ \A v \in DOMAIN user_forwarding_context :
                 /\ v \in DOMAIN prevCtx
                 /\ user_forwarding_context[v] = prevCtx[v]
           /\ Live(prevCtx, Sender(p), now) => user_forwarding_context = prevCtx

\* a follow-up just read the live entry of its sender, written earlier
C9_Witness ==
    \E p \in Procs :
        /\ Started(p) /\ FollowUp(p)
        /\ lastGet # None /\ lastGet[1].ret # <<>>
        /\ Live(user_forwarding_context, Sender(p), now)
        /\ user_forwarding_context[Sender(p)].timestamp < now
        /\ pc[p] \in Awaiting

\* C1: get(s) returns the empty list if no put(s) has occurred or if more
\* than the window has elapsed since the most recent put(s); otherwise, also
\* when exactly the window has elapsed, it returns the destination list of
\* the most recent put(s).
C1_GetReturnsLastPut ==
    lastGet # None =>
        LET g == lastGet[1]
            put == lastPut[g.user_id]
        IN  g.ret = IF put = None
                       \/ g.at - put[1].timestamp > CONTEXT_TIME_WINDOW_MINUTES
                    THEN <<>>
                    ELSE put[1].topics

\* a get exactly one window after the put, which still returns the list
C1_Witness ==
    /\ lastGet # None
    /\ lastPut[lastGet[1].user_id] # None
    /\ lastGet[1].at - lastPut[lastGet[1].user_id][1].timestamp
           = CONTEXT_TIME_WINDOW_MINUTES
    /\ lastGet[1].ret = <<DEFAULT_BIETE_TOPIC_ID, DEFAULT_SUCHE_TOPIC_ID>>

\* C10: two consecutive gets for a sender, with no put and no clock advance
\* in between, return the same list and the second leaves the store as the
\* first left it; a get changes the store at most by deleting that sender's
\* expired entry.
C10_GetIdempotent ==
    lastGet # None =>
        LET g == lastGet[1]
            u == g.user_id
        IN  /\ \/ user_forwarding_context = prevCtx
               \/ /\ u \in DOMAIN prevCtx
                  /\ ~Live(prevCtx, u, g.at)
                  /\ DOMAIN user_forwarding_context = DOMAIN prevCtx \ {u}
                  /\ \A v \in DOMAIN user_forwarding_context :
                        user_forwarding_context[v] = prevCtx[v]
            /\ g.prev # None =>
                  /\ g.ret = g.prev[1]
                  /\ user_forwarding_context = prevCtx

\* a second get in a row for a sender whose expired entry the first deleted
C10_Witness ==
    /\ lastGet # None
    /\ lastGet[1].prev # None
    /\ lastPut[lastGet[1].user_id] # None
    /\ lastGet[1].at - lastPut[lastGet[1].user_id][1].timestamp
           > CONTEXT_TIME_WINDOW_MINUTES
    /\ lastGet[1].user_id \notin DOMAIN user_forwarding_context
    /\ lastGet[1].ret = <<>>

C12_StoreAtomicity ==
    /\ \A u \in DOMAIN user_forwarding_context :
          /\ lastPut[u] # None
          /\ user_forwarding_context[u] = lastPut[u][1]
    /\ \A u \in Users :
          (lastPut[u] # None /\ u \notin DOMAIN user_forwarding_context)
              => now - lastPut[u][1].timestamp > CONTEXT_TIME_WINDOW_MINUTES
    /\ lastGet # None =>
          LET g == lastGet[1]
              u == g.user_id
          IN  g.ret # <<>> =>
                  /\ lastPut[u] # None
                  /\ g.ret = lastPut[u][1].topics
                  /\ prevCtx[u] = lastPut[u][1]

\* a get that deletes the sender's expired entry while another invocation
\* for the same sender is between its get or first send and its put
C12_Witness ==
    \E p, q \in Procs :
        /\ p # q
        /\ Started(p)
        /\ lastGet # None
        /\ lastGet[1].user_id \in DOMAIN prevCtx
        /\ lastGet[1].user_id \notin DOMAIN user_forwarding_context
        /\ pc[q] \in Awaiting
        /\ Marked(q)
        /\ Sender(q) = lastGet[1].user_id

\* the bot calls invocation p has made so far, in the order made: those that
\* have returned and the one it awaits
Attempts(p) ==
    [i \in 1..Len(log[p]) |-> [call |-> log[p][i].call, at |-> log[p][i].at]]
    \o (IF pc[p] \in Awaiting
        THEN <<[call |-> InFlight(p), at |-> pc[p]]>>
        ELSE <<>>)

IsPrefix(s, t) == Len(s) <= Len(t) /\ \A i \in 1..Len(s) : s[i] = t[i]

\* invocation p forwards a message with text that is not blank and media
TextAndMedia(p) ==
    /\ Monitored(p)
    /\ message[p][1].from_user # None
    /\ NonBlank(TextOf(message[p][1]))
    /\ message[p][1].media # {}
    /\ topics[p] # <<>>

\* C13: in an invocation with non-blank text and media, the text sends and
\* the media sends each go through the destination list in its order, one
\* call at a time, and the media send to a destination is made only after
\* the text send to that destination.
C13_DispatchOrder ==
    \A p \in Procs :
        TextAndMedia(p) =>
            LET a == Attempts(p) IN
            /\ IsPrefix(ThreadsAt(a, "text"), topics[p])
            /\ IsPrefix(ThreadsAt(a, "media"), topics[p])
            /\ \A k \in 1..Len(a) :
                  a[k].at = "media" =>
                      \E j \in 1..(k - 1) :
                          /\ a[j].at = "text"
                          /\ a[j].call.message_thread_id = a[k].call.message_thread_id
            /\ pc[p] = "done" =>
                  /\ ThreadsAt(a, "text") = topics[p]
                  /\ ThreadsAt(a, "media") = topics[p]

\* a captioned photo with both markers, forwarded to both topics
C13_Witness ==
    \E p \in Procs :
        /\ TextAndMedia(p)
        /\ pc[p] = "done"
        /\ topics[p] = <<DEFAULT_BIETE_TOPIC_ID, DEFAULT_SUCHE_TOPIC_ID>>
        /\ Len(log[p]) = 4
        /\ ~log[p][1].ok /\ log[p][3].ok

\* the place of thread th in the list tp of distinct threads
PosIn(tp, th) == CHOOSE i \in 1..Len(tp) : tp[i] = th

\* C14, as claimed: in an invocation with non-blank text, media and two
\* destinations or more, every call for a destination is made before any
\* call for the next destination of the list.
C14_DestinationByDestination ==
    \A p \in Procs :
        (TextAndMedia(p) /\ Len(topics[p]) >= 2) =>
            LET a == Attempts(p) IN
            \A j, k \in 1..Len(a) :
                j < k => PosIn(topics[p], a[j].call.message_thread_id)
                             <= PosIn(topics[p], a[k].call.message_thread_id)

\* C14, amended: in an invocation with non-blank text, media and two
\* destinations or more, the text send to every destination of the list has
\* been made, in the order of the list, when the first media send is made,
\* and no text send is made after a media send.
C14_TextPhaseFirst ==
    \A p \in Procs :
        (TextAndMedia(p) /\ Len(topics[p]) >= 2) =>
            LET a == Attempts(p) IN
            /\ (\E k \in 1..Len(a) : a[k].at # "text")
                   => ThreadsAt(a, "text") = topics[p]
            /\ \A j, k \in 1..Len(a) :
                   (j < k /\ a[j].at # "text") => a[k].at # "text"

\* the media send to the first destination is awaited after the text sends to
\* both destinations returned
C14_Witness ==
    \E p \in Procs :
        /\ TextAndMedia(p)
        /\ Len(topics[p]) = 2
        /\ pc[p] = "media"
        /\ idx[p] = 1
        /\ ThreadsAt(log[p], "text") = topics[p]

\* the number of calls of a made at await point at for thread th
Count(a, at, th) ==
    Cardinality({k \in 1..Len(a) : a[k].at = at /\ a[k].call.message_thread_id = th})

\* the payload kinds in the order of priority the specification gives
PriorityOrder ==
    <<"photo", "video", "document", "audio", "voice", "video_note", "sticker">>

\* k is the first kind of PriorityOrder that the payload set md holds
FirstPresent(md, k) ==
    \E i \in 1..Len(PriorityOrder) :
        /\ PriorityOrder[i] = k
        /\ k \in md
        /\ \A j \in 1..(i - 1) : PriorityOrder[j] \notin md

FollowedUp(a, k) ==
    /\ k + 1 <= Len(a)
    /\ a[k + 1].at = "followup"
    /\ a[k + 1].call.prim = "send_message"
    /\ a[k + 1].call.message_thread_id = a[k].call.message_thread_id

Header(m) == [header |-> UserLink(m.from_user), body |-> None]

\* the calls of a for thread th whose text or caption carries the body of m
CarryBody(a, m, th) ==
    {k \in 1..Len(a) :
        /\ a[k].call.message_thread_id = th
        /\ a[k].call.text # None
        /\ a[k].call.text[1].body = Some(TextOf(m))}

\* C17: for a photo, video, document, audio or voice message the caption
\* passed to the send_<kind> call is the attribution header alone, and the
\* body of a captioned message reaches each destination in one call only,
\* the text send.
C17_BodyDeliveredOnce ==
    \A p \in Procs :
        ( /\ message[p] # None
          /\ topics[p] # <<>>
          /\ \E kind \in {"photo", "video", "document", "audio", "voice"} :
                FirstPresent(message[p][1].media, kind) ) =>
            LET a == Attempts(p)
                m == message[p][1]
            IN
            /\ \A k \in 1..Len(a) :
                  a[k].at = "media" => a[k].call.text = Some(Header(m))
            /\ \A th \in Range(topics[p]) :
                  /\ Cardinality(CarryBody(a, m, th)) <= 1
                  /\ \A k \in CarryBody(a, m, th) : a[k].at = "text"

\* C18: in every reachable state every entry of the store has a non-empty
\* list of topics, each of them BIETE_TOPIC_ID or SUCHE_TOPIC_ID, and every
\* bot call made goes to GROUP_ID and to one of these two threads.
C18_OnlyKeywordDestinations ==
    /\ \A u \in DOMAIN user_forwarding_context :
          /\ user_forwarding_context[u].topics # <<>>
          /\ Range(user_forwarding_context[u].topics)
                 \subseteq {BIETE_TOPIC_ID, SUCHE_TOPIC_ID}
    /\ \A p \in Procs :
          \A k \in 1..Len(Attempts(p)) :
              /\ Attempts(p)[k].call.chat_id = GROUP_ID
              /\ Attempts(p)[k].call.message_thread_id
                     \in {BIETE_TOPIC_ID, SUCHE_TOPIC_ID}

\* a follow-up with media on its way to the second topic of the entry that
\* a message with both markers left
C18_Witness ==
    \E p \in Procs :
        /\ FollowUp(p)
        /\ Sender(p) \in DOMAIN user_forwarding_context
        /\ Len(user_forwarding_context[Sender(p)].topics) = 2
        /\ pc[p] = "media"
        /\ InFlight(p).message_thread_id = SUCHE_TOPIC_ID

\* C19: a keyword route all of whose calls raised still leaves the sender's
\* entry with the keyword destinations, and a get for the sender at any
\* time up to the window later returns them, so a follow-up handled then is
\* dispatched to them.
C19_ContextDespiteFailures ==
    \A p \in Procs :
        ( /\ StepOf(p) /\ Marked(p) /\ pc[p] = "done"
          /\ \A i \in 1..Len(log[p]) : ~log[p][i].ok ) =>
            LET K == KeywordDestinations(TextOf(message[p][1])) IN
            /\ K # <<>>
            /\ Sender(p) \in DOMAIN user_forwarding_context
            /\ user_forwarding_context[Sender(p)].topics = K
            /\ \A t \in now..(now + CONTEXT_TIME_WINDOW_MINUTES) :
                  get_active_topics_for_user(
                      user_forwarding_context, Sender(p), t).ret = K

\* a captioned photo with both markers whose four calls all raised, with the
\* entry it left
C19_Witness ==
    \E p \in Procs :
        /\ StepOf(p) /\ Marked(p) /\ pc[p] = "done"
        /\ Len(log[p]) = 4
        /\ \A i \in 1..Len(log[p]) : ~log[p][i].ok
        /\ message[p][1].media = {"photo"}
        /\ prevCtx = <<>>
        /\ user_forwarding_context[Sender(p)].topics =
               <<DEFAULT_BIETE_TOPIC_ID, DEFAULT_SUCHE_TOPIC_ID>>

\* the entry of sender v is after the step what it was before it
SameEntry(v) ==
    /\ v \in DOMAIN user_forwarding_context <=> v \in DOMAIN prevCtx
    /\ v \in DOMAIN user_forwarding_context
           => user_forwarding_context[v] = prevCtx[v]

\* C20: a step of an invocation for sender s, with the get or put it makes,
\* leaves the entry of every other sender as it was; an entry leaves the
\* store only in a step whose get is for its own sender and finds it older
\* than the window; the passing of time alone removes nothing, however old
\* an entry is.
C20_FrameLazyExpiry ==
    /\ \A p \in Procs :
          (StepOf(p) /\ message[p] # None /\ message[p][1].from_user # None)
              => \A v \in Users \ {Sender(p)} : SameEntry(v)
    /\ \A u \in DOMAIN prevCtx \ DOMAIN user_forwarding_context :
          /\ lastGet # None
          /\ lastGet[1].user_id = u
          /\ lastGet[1].at - prevCtx[u].timestamp > CONTEXT_TIME_WINDOW_MINUTES
    /\ lastGet # None => \A v \in Users \ {lastGet[1].user_id} : SameEntry(v)
    /\ lastStep.op = "Tick" => user_forwarding_context = prevCtx

\* a follow-up of a sender whose expired entry its get deletes, while the
\* equally old entry of another sender stays in the store
C20_Witness ==
    \E p \in Procs :
        /\ Started(p) /\ FollowUp(p)
        /\ Sender(p) \in DOMAIN prevCtx
        /\ Sender(p) \notin DOMAIN user_forwarding_context
        /\ \E v \in Users \ {Sender(p)} :
              /\ v \in DOMAIN user_forwarding_context
              /\ now - user_forwarding_context[v].timestamp
                     > CONTEXT_TIME_WINDOW_MINUTES

====
